---- MODULE Spec2Model ----
(***************************************************************************)
(* Model of src/script.py: the particle validator, the snapshot reducer    *)
(* analyze_flow_field, and the load -> reduce -> render pipeline of main.  *)
(*                                                                         *)
(* JSON values are tagged records.  A scalar is [k, n]: k is the JSON kind *)
(* ("num", "bool", "str", "null", "obj", "list", "absent") and n the value *)
(* of a number (or 1/0 for true/false).  "absent" stands for a key that is *)
(* not in the enclosing object.                                            *)
(***************************************************************************)
EXTENDS Integers, Sequences, FiniteSets, TLC

VARIABLES
    particle, verdict,                     \* one call of validate_particle_data
    data, result, called,                  \* one call of analyze_flow_field
    pc, input, raw_data, processed_data,   \* main()
    exit_status, attempted, written

vars == <<particle, verdict, data, result, called, pc, input, raw_data,
          processed_data, exit_status, attempted, written>>

\* Largest number of snapshots in an input sequence.
MaxSnapshots == 3

----------------------------------------------------------------------------
(* JSON values *)

Scalar(k, n) == [k |-> k, n |-> n]
Num(n) == Scalar("num", n)
Bool(n) == Scalar("bool", n)
Str == Scalar("str", 0)
Null == Scalar("null", 0)
Obj == Scalar("obj", 0)
Absent == Scalar("absent", 0)

\* A Position / Velocity value: an object with X, Y, Z, or a value of kind k.
Vec(x, y, z) == [k |-> "obj", X |-> x, Y |-> y, Z |-> z]
NonVec(k) == [k |-> k, X |-> Absent, Y |-> Absent, Z |-> Absent]

\* A particle: an object, or a value of kind k.
Particle(pos, vel, temp) ==
    [k |-> "obj", Position |-> pos, Velocity |-> vel, Temperature |-> temp]
NonParticle(k) ==
    [k |-> k, Position |-> NonVec("absent"), Velocity |-> NonVec("absent"),
     Temperature |-> Absent]

\* A Particles value: kind, numeric value / length, and what iterating yields
\* (the elements of a list, the characters of a string, the keys of an object).
ParticleList(items) == [k |-> "list", n |-> Len(items), items |-> items]
ParticleNum(n) == [k |-> "num", n |-> n, items |-> <<>>]
ParticleStr == [k |-> "str", n |-> 2,
                items |-> <<NonParticle("str"), NonParticle("str")>>]
ParticleObj == [k |-> "obj", n |-> 1, items |-> <<NonParticle("str")>>]
ParticleNull == [k |-> "null", n |-> 0, items |-> <<>>]
ParticleAbsent == [k |-> "absent", n |-> 0, items |-> <<>>]

\* A snapshot record: an object, or a value of kind k.
Snapshot(ts, ps) == [k |-> "obj", Timestamp |-> ts, Particles |-> ps]
NonSnapshot(k) == [k |-> k, Timestamp |-> Absent, Particles |-> ParticleAbsent]

----------------------------------------------------------------------------
(* Python primitives used by the code *)

\* isinstance(v, (int, float)); bool is a subclass of int in Python
isinstance_number(v) == v.k \in {"num", "bool"}

\* d.get(key, default) seen from the value stored under the key
DictGet(v, default) == IF v.k = "absent" THEN default ELSE v

\* only a dict has .get; anything else raises AttributeError
HasGet(v) == v.k = "obj"

\* truth value of a Particles value in "if not particles"
Truthy(ps) == IF ps.k \in {"list", "str", "obj", "num", "bool"}
              THEN ps.n # 0 ELSE FALSE

\* "for p in particles" raises TypeError unless the value is iterable
Iterable(ps) == ps.k \in {"list", "str", "obj"}

\* format(v, ".2f") succeeds for int, float, bool and their numpy scalars
Formattable(v) == v.k \in {"num", "bool"}

----------------------------------------------------------------------------
(* validate_particle_data *)

Axes == {"X", "Y", "Z"}

\* the try block: "True", "False", or "raise" when an exception escapes it
validate_try(p) ==
    IF ~HasGet(p) THEN "raise"
    ELSE LET pos == DictGet(p.Position, Vec(Absent, Absent, Absent))
             vel == DictGet(p.Velocity, Vec(Absent, Absent, Absent))
         IN  IF ~HasGet(pos) THEN "raise"
             ELSE IF ~(\A c \in Axes : isinstance_number(pos[c])) THEN "False"
             ELSE IF ~HasGet(vel) THEN "raise"
             ELSE IF ~(\A c \in Axes : isinstance_number(vel[c])) THEN "False"
             ELSE IF ~isinstance_number(p.Temperature) THEN "False"
             ELSE "True"

\* except Exception: return False
validate_particle_data(p) ==
    LET r == validate_try(p) IN IF r = "raise" THEN "False" ELSE r

----------------------------------------------------------------------------
(* analyze_flow_field *)

RECURSIVE SumSeq(_)
SumSeq(s) == IF s = <<>> THEN 0 ELSE Head(s) + SumSeq(Tail(s))

RECURSIVE GCD(_, _)
GCD(a, b) == IF b = 0 THEN a ELSE GCD(b, a % b)

\* the quotient s / n as a reduced fraction
Frac(s, n) == LET g == GCD(s, n) IN [num |-> s \div g, den |-> n \div g]

\* one column of positions_array / velocities_array (true counts as 1)
Column(valid, field, c) == [j \in 1..Len(valid) |-> valid[j][field][c].n]

\* array.mean(axis=0)
mean_axis0(valid, field) ==
    [c \in Axes |-> Frac(SumSeq(Column(valid, field, c)), Len(valid))]

None == [ok |-> FALSE, times |-> <<>>, positions |-> <<>>, velocities |-> <<>>]

EmptyAcc == [times |-> <<>>, positions |-> <<>>, velocities |-> <<>>,
             raised |-> FALSE]

\* snapshot.get('Timestamp', 0)
GetTimestamp(snapshot) == DictGet(snapshot.Timestamp, Num(0))

\* snapshot.get('Particles', [])
GetParticles(snapshot) == DictGet(snapshot.Particles, ParticleList(<<>>))

\* [p for p in particles if validate_particle_data(p)]
ValidParticles(particles) ==
    SelectSeq(particles.items, LAMBDA p : validate_particle_data(p) = "True")

\* variant: the timestamp is appended before the valid-particle check
SkipNoValidKeepsTime(acc, timestamp) ==
    [acc EXCEPT !.times = Append(@, timestamp)]

\* "if not valid_particles: continue": nothing is appended
SkipNoValid(acc, timestamp) == acc

\* the three appends of one contributing snapshot
AppendEntry(acc, timestamp, valid) ==
    [acc EXCEPT !.times = Append(@, timestamp),
                !.positions = Append(@, mean_axis0(valid, "Position")),
                !.velocities = Append(@, mean_axis0(valid, "Velocity"))]

\* the for loop from index i on; raised is set when an exception leaves it
RECURSIVE Loop(_, _, _)
Loop(d, i, acc) ==
    IF i > Len(d) THEN acc
    ELSE LET snapshot == d[i] IN
         IF ~HasGet(snapshot) THEN Loop(d, i + 1, acc)
         ELSE LET timestamp == GetTimestamp(snapshot)
                  particles == GetParticles(snapshot)
              IN  IF ~Truthy(particles) THEN Loop(d, i + 1, acc)
                  ELSE IF ~Iterable(particles)
                       THEN [acc EXCEPT !.raised = TRUE]
                  ELSE LET valid == ValidParticles(particles) IN
                       IF valid = <<>>
                       THEN Loop(d, i + 1, SkipNoValid(acc, timestamp))
                       ELSE IF (i = 1 \/ i = Len(d)) /\ ~Formattable(timestamp)
                            THEN [acc EXCEPT !.raised = TRUE]
                       ELSE Loop(d, i + 1, AppendEntry(acc, timestamp, valid))

\* variant: the time points are put in ascending order
NpArraySorted(times) == SortSeq(times, LAMBDA a, b : a.n < b.n)

\* np.array(times): None forces dtype object (elements kept); otherwise a
\* string turns every element into a string; otherwise true/false mixed with
\* numbers become 1/0; an all-bool list stays bool.
NpArray(times) ==
    LET kinds == {times[j].k : j \in 1..Len(times)} IN
    IF "null" \in kinds THEN times
    ELSE IF "str" \in kinds THEN [j \in 1..Len(times) |-> Str]
    ELSE IF kinds \subseteq {"bool"} THEN times
    ELSE [j \in 1..Len(times) |-> Num(times[j].n)]

\* fewest time points the reduction accepts
MinTimePoints == 2

analyze_flow_field(d) ==
    IF Len(d) < 2 THEN None
    ELSE LET acc == Loop(d, 1, EmptyAcc) IN
         IF acc.raised THEN None
         ELSE IF Len(acc.times) < MinTimePoints THEN None
         ELSE LET times == NpArray(acc.times) IN
              IF ~Formattable(times[1]) \/ ~Formattable(times[Len(times)])
              THEN None
              ELSE [ok |-> TRUE, times |-> times,
                    positions |-> acc.positions,
                    velocities |-> acc.velocities]

----------------------------------------------------------------------------
(* load_simulation_data and main *)

NoData == [ok |-> FALSE, data |-> <<>>]

\* open / json.load / shape check; every exception is turned into None
load_simulation_data(in) ==
    IF in.file # "list" THEN NoData
    ELSE IF Len(in.data) = 0 THEN NoData
    ELSE [ok |-> TRUE, data |-> in.data]

\* "if not raw_data"
LoadFailed(raw) == ~raw.ok \/ Len(raw.data) = 0

\* variant: the result of the reduction is not tested
AnalysisFailedIgnored(p) == FALSE

\* "if not processed_data"
AnalysisFailed(p) == ~p.ok

Charts == <<"velocity", "magnitude", "trajectory", "position">>

\* variant: no except clause, a rendering error ends the process
ChartRaise(fail, next) ==
    IF fail THEN [pc |-> "exit", status |-> 1] ELSE [pc |-> next, status |-> -1]

\* a chart function returns normally whether or not rendering failed
ChartReturn(fail, next) == [pc |-> next, status |-> -1]

----------------------------------------------------------------------------
(* Inputs *)

ValidA == Particle(Vec(Num(0), Num(0), Num(0)), Vec(Num(1), Num(0), Num(0)), Num(300))
ValidB == Particle(Vec(Num(1), Num(0), Num(0)), Vec(Num(1), Num(0), Num(0)), Num(300))
ValidC == Particle(Vec(Num(2), Num(4), Num(1)), Vec(Num(0), Num(3), Num(5)), Num(300))
BadTemp == Particle(Vec(Num(6), Num(6), Num(6)), Vec(Num(6), Num(6), Num(6)), Str)
BoolTemp == Particle(Vec(Num(4), Num(2), Num(0)), Vec(Num(2), Num(2), Num(2)), Bool(1))

SnapshotUniverse ==
    { Snapshot(Num(0), ParticleList(<<ValidA>>)),
      Snapshot(Num(1), ParticleList(<<ValidB>>)),
      Snapshot(Num(2), ParticleList(<<ValidB, ValidC>>)),
      Snapshot(Absent, ParticleList(<<ValidC, BadTemp>>)),
      Snapshot(Num(1), ParticleList(<<BadTemp>>)),
      Snapshot(Num(2), ParticleList(<<BoolTemp>>)),
      Snapshot(Num(1), ParticleList(<<ValidA, BoolTemp>>)),
      Snapshot(Num(2), ParticleAbsent),
      Snapshot(Num(3), ParticleList(<<>>)),
      Snapshot(Num(1), ParticleNum(5)),
      Snapshot(Num(1), ParticleStr),
      Snapshot(Num(1), ParticleObj),
      Snapshot(Num(1), ParticleNull),
      Snapshot(Str, ParticleList(<<ValidA>>)),
      Snapshot(Null, ParticleList(<<ValidB>>)),
      Snapshot(Bool(1), ParticleList(<<ValidC>>)),
      NonSnapshot("str") }

SeqsUpTo(S, n) == UNION {[1..m -> S] : m \in 0..n}

DataUniverse == SeqsUpTo(SnapshotUniverse, MaxSnapshots)

\* snapshots fed through main(): the pipeline looks only at success / failure
PipelineSnapshots ==
    { Snapshot(Num(0), ParticleList(<<ValidA>>)),
      Snapshot(Num(1), ParticleList(<<ValidB>>)),
      Snapshot(Num(1), ParticleList(<<BadTemp>>)),
      Snapshot(Num(1), ParticleNum(5)),
      Snapshot(Null, ParticleList(<<ValidB>>)) }

InputUniverse ==
    { [argc_ok |-> FALSE, file |-> "list", data |-> <<>>] }
    \cup { [argc_ok |-> TRUE, file |-> f, data |-> <<>>] :
              f \in {"missing", "unparseable", "notlist"} }
    \cup { [argc_ok |-> TRUE, file |-> "list", data |-> d] :
              d \in SeqsUpTo(PipelineSnapshots, MaxSnapshots) }

FieldVals == {Num(1), Bool(1), Str, Absent}
OddVals == {Null, Obj, Scalar("list", 0), Num(0), Bool(0)}
NonObjectKinds == {"str", "null", "num", "bool", "list"}

ParticleUniverse ==
    { Particle(Vec(a, b, c), Vec(d, e, f), t) :
         a \in FieldVals, b \in FieldVals, c \in FieldVals, d \in FieldVals,
         e \in FieldVals, f \in FieldVals, t \in FieldVals }
    \cup { Particle(Vec(a, Num(1), Num(1)), Vec(Num(1), b, Num(1)), t) :
         a \in OddVals, b \in OddVals \cup {Num(1)}, t \in OddVals \cup {Num(1)} }
    \cup { Particle(NonVec(k), Vec(Num(1), Num(1), Num(1)), Num(1)) :
         k \in NonObjectKinds \cup {"absent"} }
    \cup { Particle(Vec(Num(1), Num(1), Num(1)), NonVec(k), Num(1)) :
         k \in NonObjectKinds \cup {"absent"} }
    \cup { NonParticle(k) : k \in NonObjectKinds }

----------------------------------------------------------------------------
(* State machines *)

IdleValidate == particle = ValidA /\ verdict = "none"
IdleReduce == data = <<>> /\ result = None /\ called = FALSE
IdleMain == /\ pc = "exit" /\ input = [argc_ok |-> FALSE, file |-> "list", data |-> <<>>]
            /\ raw_data = NoData /\ processed_data = None
            /\ exit_status = -1 /\ attempted = <<>> /\ written = {}

validateVars == <<particle, verdict>>
reduceVars == <<data, result, called>>
mainVars == <<pc, input, raw_data, processed_data, exit_status, attempted, written>>

\* --- a call of validate_particle_data on any particle
InitValidate == particle \in ParticleUniverse /\ verdict = "none"
                /\ IdleReduce /\ IdleMain

ValidateParticle ==
    /\ verdict = "none"
    /\ verdict' = validate_particle_data(particle)
    /\ UNCHANGED <<particle, reduceVars, mainVars>>

NextValidate == ValidateParticle
SpecValidate == InitValidate /\ [][NextValidate]_vars

\* --- a call of analyze_flow_field on any snapshot sequence
InitReduce == data \in DataUniverse /\ result = None /\ called = FALSE
              /\ IdleValidate /\ IdleMain

AnalyzeFlowField ==
    /\ ~called
    /\ result' = analyze_flow_field(data)
    /\ called' = TRUE
    /\ UNCHANGED <<data, validateVars, mainVars>>

NextReduce == AnalyzeFlowField
SpecReduce == InitReduce /\ [][NextReduce]_vars

\* --- main()
Init == /\ input \in InputUniverse
        /\ pc = "args"
        /\ raw_data = NoData /\ processed_data = None
        /\ exit_status = -1 /\ attempted = <<>> /\ written = {}
        /\ IdleValidate /\ IdleReduce

Exit(status) == pc' = "exit" /\ exit_status' = status

CheckArgs ==
    /\ pc = "args"
    /\ IF ~input.argc_ok THEN Exit(1)
       ELSE pc' = "load" /\ UNCHANGED exit_status
    /\ UNCHANGED <<input, raw_data, processed_data, attempted, written,
                   validateVars, reduceVars>>

LoadData ==
    /\ pc = "load"
    /\ raw_data' = load_simulation_data(input)
    /\ IF LoadFailed(raw_data') THEN Exit(1)
       ELSE pc' = "analyze" /\ UNCHANGED exit_status
    /\ UNCHANGED <<input, processed_data, attempted, written,
                   validateVars, reduceVars>>

Analyze ==
    /\ pc = "analyze"
    /\ processed_data' = analyze_flow_field(raw_data.data)
    /\ IF AnalysisFailed(processed_data') THEN Exit(1)
       ELSE pc' = "velocity" /\ UNCHANGED exit_status
    /\ UNCHANGED <<input, raw_data, attempted, written,
                   validateVars, reduceVars>>

\* create_trajectory_plot returns early, writing nothing, on fewer than 2 points
TooFewPositions(chart, p) == chart = "trajectory" /\ Len(p.positions) < 2

\* one create_*_plot call: rendering or saving may fail (fail = TRUE); the
\* failure is printed inside the function
CreatePlot(chart, next) ==
    /\ pc = chart
    /\ attempted' = Append(attempted, chart)
    /\ \E fail \in BOOLEAN :
          /\ written' = IF fail \/ TooFewPositions(chart, processed_data)
                        THEN written ELSE written \cup {chart}
          /\ LET r == ChartReturn(fail, next) IN
                pc' = r.pc /\ exit_status' = r.status
    /\ UNCHANGED <<input, raw_data, processed_data, validateVars, reduceVars>>

CreateVelocityPlot == CreatePlot("velocity", "magnitude")
CreateMagnitudePlot == CreatePlot("magnitude", "trajectory")
CreateTrajectoryPlot == CreatePlot("trajectory", "position")
CreatePositionPlot == CreatePlot("position", "report")

\* the closing prints; main returns and the interpreter exits with status 0
Report ==
    /\ pc = "report"
    /\ Exit(0)
    /\ UNCHANGED <<input, raw_data, processed_data, attempted, written,
                   validateVars, reduceVars>>

Next == \/ CheckArgs
        \/ LoadData
        \/ Analyze
        \/ CreateVelocityPlot
        \/ CreateMagnitudePlot
        \/ CreateTrajectoryPlot
        \/ CreatePositionPlot
        \/ Report

Spec == Init /\ [][Next]_vars

----------------------------------------------------------------------------
(* Properties *)

\* all seven fields present and numbers (true / false are not numbers)
AllNumeric(p) ==
    /\ p.k = "obj"
    /\ p.Position.k = "obj" /\ p.Velocity.k = "obj"
    /\ \A c \in Axes : p.Position[c].k = "num" /\ p.Velocity[c].k = "num"
    /\ p.Temperature.k = "num"

\* the record is an object whose particle list holds a numeric particle
HoldsValidParticle(s) ==
    /\ s.k = "obj" /\ s.Particles.k = "list"
    /\ \E j \in 1..Len(s.Particles.items) : AllNumeric(s.Particles.items[j])

NumberHoldingValid(d) ==
    Cardinality({i \in 1..Len(d) : HoldsValidParticle(d[i])})

\* positions (in the list) of the particles the validator accepts
Accepted(s) ==
    {j \in 1..Len(s.Particles.items) :
        validate_particle_data(s.Particles.items[j]) = "True"}

\* indices of the snapshots that own an entry of the series, in input order
Contributing(d) ==
    SelectSeq([i \in 1..Len(d) |-> i],
              LAMBDA i : d[i].k = "obj" /\ Accepted(d[i]) # {})

TimestampOf(s) == IF s.Timestamp.k = "absent" THEN Num(0) ELSE s.Timestamp

\* Python ==: 1 == 1.0 == True
PyEq(a, b) == \/ a = b
              \/ a.k \in {"num", "bool"} /\ b.k \in {"num", "bool"} /\ a.n = b.n

RECURSIVE SumOver(_, _, _, _)
SumOver(J, s, field, c) ==
    IF J = {} THEN 0
    ELSE LET j == CHOOSE x \in J : TRUE IN
         s.Particles.items[j][field][c].n + SumOver(J \ {j}, s, field, c)

\* m is the coordinate-wise mean of field over the particles J of s
IsMeanOver(m, J, s, field) ==
    /\ J # {}
    /\ \A c \in Axes : /\ m[c].den > 0
                       /\ m[c].num * Cardinality(J) = m[c].den * SumOver(J, s, field, c)

\* C1: a returned series has three sequences of one length, at least 2, whose
\* k-th entries all come from the k-th contributing snapshot; a failed call
\* returns no series at all.
C1_AlignedSeries ==
    called =>
      IF result.ok
      THEN LET idx == Contributing(data) IN
           /\ Len(result.times) >= 2
           /\ Len(result.positions) = Len(result.times)
           /\ Len(result.velocities) = Len(result.times)
           /\ Len(idx) = Len(result.times)
           /\ \A k \in 1..Len(idx) :
                 LET s == data[idx[k]] IN
                 /\ PyEq(result.times[k], TimestampOf(s))
                 /\ IsMeanOver(result.positions[k], Accepted(s), s, "Position")
                 /\ IsMeanOver(result.velocities[k], Accepted(s), s, "Velocity")
      ELSE result.times = <<>> /\ result.positions = <<>> /\ result.velocities = <<>>

C1_Witness ==
    /\ called /\ result.ok
    /\ Len(data) = 3 /\ Len(result.times) = 2
    /\ result.positions[1] # result.positions[2]

\* C2: when fewer than 2 snapshots hold a valid (all-numeric) particle, the
\* reduction fails.
C2_FewValidSnapshotsFail ==
    (called /\ NumberHoldingValid(data) < 2) => ~result.ok

\* C3: validate_particle_data answers True exactly for particles whose seven
\* fields are all present and numbers, and never raises.
C3_ValidIffAllNumeric ==
    verdict # "none" =>
        /\ verdict \in {"True", "False"}
        /\ (verdict = "True") <=> AllNumeric(particle)

\* C4: on success the series has exactly one entry per input snapshot that
\* holds a valid (all-numeric) particle.
C4_OneEntryPerValidSnapshot ==
    (called /\ result.ok) =>
        /\ Len(result.times) = NumberHoldingValid(data)
        /\ Len(result.positions) = NumberHoldingValid(data)
        /\ Len(result.velocities) = NumberHoldingValid(data)

\* C5: on success times lists the Timestamp (0 when absent) of the
\* contributing snapshots in input order, never sorted.
C5_TimesInInputOrder ==
    (called /\ result.ok) =>
        LET idx == Contributing(data) IN
        /\ Len(result.times) = Len(idx)
        /\ \A k \in 1..Len(idx) :
              PyEq(result.times[k], TimestampOf(data[idx[k]]))

C5_Witness ==
    /\ called /\ result.ok
    /\ \E k \in 1..(Len(result.times) - 1) :
          result.times[k].n > result.times[k + 1].n

\* C6: every emitted mean position and velocity is the arithmetic mean over
\* exactly the valid (all-numeric) particles of its snapshot.
C6_MeanOverValidOnly ==
    (called /\ result.ok) =>
        LET idx == Contributing(data) IN
        \A k \in 1..Len(idx) :
            LET s == data[idx[k]]
                J == {j \in 1..Len(s.Particles.items) :
                         AllNumeric(s.Particles.items[j])}
            IN  /\ IsMeanOver(result.positions[k], J, s, "Position")
                /\ IsMeanOver(result.velocities[k], J, s, "Velocity")

LoadSucceeds ==
    input.argc_ok /\ input.file = "list" /\ Len(input.data) > 0

\* C7: a failed load or a failed reduction ends the run with status 1 before
\* any chart step starts and with no image written; status 0 only after both
\* succeeded.
C7_FatalBeforeRender ==
    /\ exit_status = 1 => attempted = <<>> /\ written = {}
    /\ (attempted # <<>> \/ written # {}) => LoadSucceeds /\ processed_data.ok
    /\ exit_status = 0 => LoadSucceeds /\ processed_data.ok
    /\ (pc = "exit" /\ ~(LoadSucceeds /\ processed_data.ok)) => exit_status = 1

C7_Witness ==
    /\ pc = "exit" /\ exit_status = 1
    /\ LoadSucceeds /\ raw_data.ok /\ ~processed_data.ok

\* C8: after a successful reduction the four chart steps are attempted in
\* the fixed order whichever of them fail, and the run ends with status 0.
C8_AllChartsAttempted ==
    /\ Len(attempted) <= Len(Charts)
    /\ \A j \in 1..Len(attempted) : attempted[j] = Charts[j]
    /\ written \subseteq {attempted[j] : j \in 1..Len(attempted)}
    /\ (pc = "exit" /\ processed_data.ok) =>
           attempted = Charts /\ exit_status = 0

C8_Witness ==
    /\ pc = "exit" /\ processed_data.ok
    /\ written = {"magnitude"}

\* C10: whenever at least two records are objects holding a valid particle,
\* the reduction succeeds, whatever else the input contains.
C10_MalformedNeverAborts ==
    (called /\ NumberHoldingValid(data) >= 2) => result.ok

====
